---- MODULE Spec2Model ----
(***************************************************************************)
(* quitch: the plan/change model, the chained change id, the registry      *)
(* reconciler (validate_against_plan) and the revert command of main.ts.   *)
(*                                                                         *)
(* Modelling conventions                                                   *)
(*  - `undefined` is the empty tuple; an optional record is a tuple of     *)
(*    length 0 or 1.                                                       *)
(*  - crypto.subtle.digest("SHA-1", bytes) is a symbolic, collision-free   *)
(*    digest: the tagged tuple <<"sha1", bytes>>.                          *)
(*  - a text is a sequence of one-character strings; a fixed word of the   *)
(*    program (a keyword, a pragma name) is one element.                   *)
(*  - every await on the database driver or the file system is one step    *)
(*    that either resolves or rejects.                                     *)
(*  - a Date is its time value in milliseconds; its ISO 8601 text is kept  *)
(*    to the seconds digit and the first fraction digit.                   *)
(*                                                                         *)
(* Specifications                                                          *)
(*  - Spec: the commands of main.ts against the registry.                  *)
(*  - GenSpec: the generator Plan.full_changes and its consumer.           *)
(*  - PureSpec: the functions of change.ts and plan.ts and the argument    *)
(*    parsing of main.ts, each called once on arguments drawn from the     *)
(*    sets defined with it.                                                *)
(***************************************************************************)
EXTENDS Integers, Sequences, FiniteSets, TLC

\* ---------------------------------------------------------------- bounds
MaxPlanLen == 3
MaxRuns == 2
MaxFileChanges == 2
MaxFileLines == 3

\* The invocations: one operator at one terminal.
Procs == {1}

Undefined == <<>>

\* ------------------------------------------------- String.prototype
\* The index of the first occurrence of the character, -1 when there is none.
indexOf(s, ch) ==
  IF \A i \in 1..Len(s) : s[i] # ch THEN -1
  ELSE (CHOOSE k \in 1..Len(s) : s[k] = ch /\ \A j \in 1..(k - 1) : s[j] # ch) - 1

\* slice(from) and slice(from, to), for indexes within the text.
slice(s, from) == SubSeq(s, from + 1, Len(s))
slice2(s, from, to) == SubSeq(s, from + 1, to)

startsWith(s, ch) == Len(s) > 0 /\ s[1] = ch

WhiteSpace == {" ", "\n"}

RECURSIVE trimStart(_)
trimStart(s) ==
  IF Len(s) = 0 THEN s
  ELSE IF s[1] \in WhiteSpace THEN trimStart(Tail(s))
  ELSE s

\* String.prototype.trim(): without the leading and trailing white space.
RECURSIVE trim(_)
trim(s) ==
  IF Len(s) = 0 THEN s
  ELSE IF s[1] \in WhiteSpace THEN trim(Tail(s))
  ELSE IF s[Len(s)] \in WhiteSpace THEN trim(SubSeq(s, 1, Len(s) - 1))
  ELSE s

\* replaceAll(pattern, replacement): every occurrence, scanning left to
\* right, occurrences not overlapping.
RECURSIVE replaceAll(_, _, _)
replaceAll(s, pattern, replacement) ==
  IF Len(s) < Len(pattern) THEN s
  ELSE IF SubSeq(s, 1, Len(pattern)) = pattern
       THEN replacement \o replaceAll(SubSeq(s, Len(pattern) + 1, Len(s)), pattern, replacement)
       ELSE <<s[1]>> \o replaceAll(Tail(s), pattern, replacement)

\* split(separator) for a one-character separator.
RECURSIVE split(_, _)
split(s, sep) ==
  LET i == indexOf(s, sep)
  IN  IF i = -1 THEN <<s>>
      ELSE <<slice2(s, 0, i)>> \o split(slice(s, i + 1), sep)

\* Array.prototype.join(separator).
RECURSIVE join(_, _)
join(pieces, sep) ==
  IF Len(pieces) = 0 THEN <<>>
  ELSE IF Len(pieces) = 1 THEN pieces[1]
  ELSE pieces[1] \o <<sep>> \o join(Tail(pieces), sep)

\* ------------------------------------------------------------------ Date
\* A Date is its time value: a number of milliseconds, or NaN for the
\* Invalid Date.  The ISO 8601 text is kept to its seconds digit and its
\* first fraction digit: "T", seconds, ".", tenths, "Z", so that the nineteen
\* characters in front of the fraction are here the first two.
NaN == -1

DigitChars == <<"0", "1", "2", "3", "4", "5", "6", "7", "8", "9">>

DigitValue(ch) == CHOOSE d \in 0..9 : DigitChars[d + 1] = ch

IsDigit(ch) == \E d \in 0..9 : DigitChars[d + 1] = ch

\* Date.prototype.toISOString(), for a valid date.
toISOString(date) ==
  <<"T", DigitChars[(date \div 1000) + 1], ".",
    DigitChars[((date % 1000) \div 100) + 1], "Z">>

\* new Date(text): the time value of an ISO text with or without the
\* fraction; any other text gives the Invalid Date, and nothing is thrown.
new_Date(text) ==
  IF Len(text) = 3 /\ text[1] = "T" /\ IsDigit(text[2]) /\ text[3] = "Z"
  THEN DigitValue(text[2]) * 1000
  ELSE IF /\ Len(text) = 5 /\ text[1] = "T" /\ IsDigit(text[2]) /\ text[3] = "."
          /\ IsDigit(text[4]) /\ text[5] = "Z"
  THEN DigitValue(text[2]) * 1000 + DigitValue(text[4]) * 100
  ELSE NaN

\* toISOString() of the Invalid Date throws; the exception is this text.
RangeError == <<"RangeError: Invalid time value">>

\* ------------------------------------------------------------ change.ts

\* date.toISOString().slice(0, 19) + "Z": the rendering keeps the whole
\* seconds.
format_line_date(date) ==
  IF date = NaN THEN RangeError
  ELSE slice2(toISOString(date), 0, 2) \o <<"Z">>

\* Variant: the record ends with a newline after the note.
Change_format_trailing_newline(project, change, parent) ==
  <<"project ">> \o project \o <<"\n">>
  \o <<"change ">> \o change.name \o <<"\n">>
  \o (IF parent # Undefined THEN <<"parent ">> \o parent \o <<"\n">> ELSE <<>>)
  \o <<"planner ">> \o change.planner \o <<"\n">>
  \o <<"date ">> \o format_line_date(change.date) \o <<"\n">>
  \o <<"\n">>
  \o change.note \o <<"\n">>

\* The canonical record; the parent line is present exactly when `parent`
\* is truthy (neither undefined nor the empty text).
Change_format(project, change, parent) ==
  <<"project ">> \o project \o <<"\n">>
  \o <<"change ">> \o change.name \o <<"\n">>
  \o (IF parent # Undefined THEN <<"parent ">> \o parent \o <<"\n">> ELSE <<>>)
  \o <<"planner ">> \o change.planner \o <<"\n">>
  \o <<"date ">> \o format_line_date(change.date) \o <<"\n">>
  \o <<"\n">>
  \o change.note

\* The digest of the frame `change <length>\0<canonical record>`; the length
\* is a function of the record, here its number of elements.  The id is a
\* text of one element, the digest in hexadecimal.
Change_id(project, change, parent) ==
  LET change_str == Change_format(project, change, parent)
      bytes == <<"change", Len(change_str), change_str>>
  IN  << <<"sha1", bytes>> >>

\* result.ts: ok(value) and err(error).
result_ok(value) == [ok |-> TRUE, value |-> value]
result_err(error) == [ok |-> FALSE, error |-> error]

\* parse_line: the name up to the first space, the date up to the next
\* space, then the planner up to the first "#" and the note after it.  The
\* Date constructor does not throw, so the catch clause is never entered.
parse_line(line) ==
  LET name_end_idx == indexOf(line, " ")
  IN  IF name_end_idx = -1 THEN result_err("missing space after name")
      ELSE
      LET name == slice2(line, 0, name_end_idx)
          change1 == trimStart(slice(line, name_end_idx))
          date_end_idx == indexOf(change1, " ")
      IN  IF date_end_idx = -1 THEN result_err("missing space after date")
          ELSE
          LET date == new_Date(slice2(change1, 0, date_end_idx))
              change2 == trimStart(slice(change1, date_end_idx))
              author_end_idx == indexOf(change2, "#")
              planner == IF author_end_idx = -1 THEN change2
                         ELSE trim(slice2(change2, 0, author_end_idx))
              note == IF author_end_idx = -1 THEN <<>>
                      ELSE replaceAll(trim(slice(change2, author_end_idx + 1)),
                                      <<"\\", "n">>, <<"\n">>)
          IN  result_ok([name |-> name, note |-> note, date |-> date, planner |-> planner])

\* format_line: name, date, planner, "#", note, the note's newlines
\* written as backslash-n.
format_line(change) ==
  change.name \o <<" ">> \o format_line_date(change.date) \o <<" ">>
  \o change.planner \o <<" ", "#", " ">>
  \o replaceAll(change.note, <<"\n">>, <<"\\", "n">>)

\* -------------------------------------------------------------- plan.ts

\* The first line of a plan file.
SyntaxLine == <<"%", "syntax-version", "=", "1.0.0">>

\* metadata: the value of the last "%key=value" line with this key, as
\* Map.get gives it; undefined when there is none.
RECURSIVE metadata_get(_, _)
metadata_get(meta_entries, key) ==
  IF Len(meta_entries) = 0 THEN Undefined
  ELSE LET entry == meta_entries[Len(meta_entries)]
           idx == indexOf(entry, "=")
           entry_key == IF idx = -1 THEN entry ELSE slice2(entry, 0, idx)
           entry_value == IF idx = -1 THEN <<>> ELSE slice(entry, idx + 1)
       IN  IF entry_key = key THEN <<entry_value>>
           ELSE metadata_get(SubSeq(meta_entries, 1, Len(meta_entries) - 1), key)

\* Variant: a line that fails is left out and the loop goes on.
RECURSIVE parse_change_lines_skip(_, _, _)
parse_change_lines_skip(change_lines, i, parsed) ==
  IF i > Len(change_lines) THEN result_ok(parsed)
  ELSE LET change == parse_line(change_lines[i])
       IN  parse_change_lines_skip(change_lines, i + 1,
             IF change.ok THEN Append(parsed, change.value) ELSE parsed)

\* The loop over change_lines: the first line that fails ends it with that
\* line's error.
RECURSIVE parse_change_lines(_, _, _)
parse_change_lines(change_lines, i, parsed) ==
  IF i > Len(change_lines) THEN result_ok(parsed)
  ELSE LET change == parse_line(change_lines[i])
       IN  IF ~change.ok THEN change
           ELSE parse_change_lines(change_lines, i + 1, Append(parsed, change.value))

\* Plan.parse.
Plan_parse(plan_text) ==
  LET lines == split(plan_text, "\n")
  IN  IF lines[1] # SyntaxLine THEN result_err("Unsupported sqitch plan syntax")
      ELSE
      LET meta_lines == SelectSeq(lines, LAMBDA line : startsWith(line, "%"))
          meta_entries == [i \in 1..Len(meta_lines) |-> trim(slice(meta_lines[i], 1))]
          got == metadata_get(meta_entries, <<"project">>)
          project == IF got = Undefined THEN <<>> ELSE got[1]
          change_lines == SelectSeq(lines, LAMBDA line :
                              ~startsWith(line, "%") /\ trim(line) # <<>>)
          parsed == parse_change_lines(change_lines, 1, <<>>)
      IN  IF ~parsed.ok THEN parsed
          ELSE result_ok([project |-> project, changes |-> parsed.value])

\* Plan.format.
Plan_format(plan) ==
  LET change_lines == [i \in 1..Len(plan.changes) |-> format_line(plan.changes[i])]
  IN  join(<<SyntaxLine, <<"%", "project", "=">> \o plan.project, <<>>>> \o change_lines,
           "\n")
      \o <<"\n">>


\* Variant: every change is identified without its parent.
full_changes_upto_unchained(plan, n) ==
  [j \in 1..n |->
     LET change == plan.changes[j]
     IN  [name |-> change.name, note |-> change.note,
          date |-> change.date, planner |-> change.planner,
          id |-> Change_id(plan.project, change, Undefined), parent |-> Undefined]]

\* full_changes: the generator's yields, in order, for the first n changes.
RECURSIVE full_changes_upto(_, _)
full_changes_upto(plan, n) ==
  IF n = 0 THEN <<>>
  ELSE LET prev == full_changes_upto(plan, n - 1)
           parent_id == IF n = 1 THEN Undefined ELSE prev[n - 1].id
           change == plan.changes[n]
           change_id == Change_id(plan.project, change, parent_id)
       IN  Append(prev, [name |-> change.name, note |-> change.note,
                         date |-> change.date, planner |-> change.planner,
                         id |-> change_id, parent |-> parent_id])

full_changes(plan) == full_changes_upto(plan, Len(plan.changes))

\* ------------------------------------------------- the changes under test
\* A plan may repeat a change: names are not checked for uniqueness, and the
\* two occurrences get different ids through their parents.
ChangePool ==
  { [name |-> <<"a">>, note |-> <<"x">>, date |-> 1000, planner |-> <<"p">>],
    [name |-> <<"b">>, note |-> <<"y">>, date |-> 2500, planner |-> <<"q">>] }

RECURSIVE SeqsUpTo(_, _)
SeqsUpTo(S, n) ==
  IF n = 0 THEN {<<>>}
  ELSE LET shorter == SeqsUpTo(S, n - 1)
       IN  shorter \cup { Append(s, x) : s \in {t \in shorter : Len(t) = n - 1}, x \in S }

Plans == { [project |-> <<"quitch">>, changes |-> cs] : cs \in SeqsUpTo(ChangePool, MaxPlanLen) }

\* Change ids no change of a "quitch" plan produces: changes of another chain.
ForeignRows ==
  { [change_id |-> Change_id(<<"other">>, c, Undefined), change |-> c.name]
      : c \in {x \in ChangePool : x.name = <<"a">>} }

\* The row Deploy would have written for a plan change (registry.ts ChangeRow,
\* the columns the program reads).
RowOf(fc) == [change_id |-> fc.id, change |-> fc.name]

PlanRows(plan) == { RowOf(full_changes(plan)[i]) : i \in 1..Len(plan.changes) }

\* -------------------------------------------------------------- main.ts

\* The walk of validate_against_plan over the generator's changes: a change
\* whose id is in change_map is removed from it, the first one that is not
\* stops the walk.
RECURSIVE walk_plan(_, _, _)
walk_plan(fcs, i, change_map) ==
  IF i > Len(fcs) THEN [first_undeployed_change |-> Undefined, change_map |-> change_map]
  ELSE IF \E r \in change_map : r.change_id = fcs[i].id
       THEN walk_plan(fcs, i + 1, {r \in change_map : r.change_id # fcs[i].id})
       ELSE [first_undeployed_change |-> <<fcs[i]>>, change_map |-> change_map]

\* Variant: the walk does not stop at the first change missing from
\* change_map; first_undeployed_change ends as the last missing change.
RECURSIVE walk_plan_no_break(_, _, _, _)
walk_plan_no_break(fcs, i, change_map, first) ==
  IF i > Len(fcs) THEN [first_undeployed_change |-> first, change_map |-> change_map]
  ELSE IF \E r \in change_map : r.change_id = fcs[i].id
       THEN walk_plan_no_break(fcs, i + 1, {r \in change_map : r.change_id # fcs[i].id}, first)
       ELSE walk_plan_no_break(fcs, i + 1, change_map, <<fcs[i]>>)

validate_against_plan_no_break(change_rows, plan) ==
  LET w == walk_plan_no_break(full_changes(plan), 1, change_rows, Undefined)
  IN  IF Cardinality(w.change_map) > 0
      THEN [threw |-> TRUE,
            error |-> <<"Found unknown changes",
                        { <<r.change_id, r.change>> : r \in w.change_map }>>,
            value |-> Undefined]
      ELSE [threw |-> FALSE, error |-> Undefined, value |-> w.first_undeployed_change]

\* Variant: the size test is off by one (change_map.size > 1).
validate_against_plan_size_gt_1(change_rows, plan) ==
  LET w == walk_plan(full_changes(plan), 1, change_rows)
  IN  IF Cardinality(w.change_map) > 1
      THEN [threw |-> TRUE,
            error |-> <<"Found unknown changes",
                        { <<r.change_id, r.change>> : r \in w.change_map }>>,
            value |-> Undefined]
      ELSE [threw |-> FALSE, error |-> Undefined, value |-> w.first_undeployed_change]

\* Variant: gaps are tolerated; the walk goes on past a missing change and
\* keeps the first missing one.
RECURSIVE walk_plan_gaps(_, _, _, _)
walk_plan_gaps(fcs, i, change_map, first) ==
  IF i > Len(fcs) THEN [first_undeployed_change |-> first, change_map |-> change_map]
  ELSE IF \E r \in change_map : r.change_id = fcs[i].id
       THEN walk_plan_gaps(fcs, i + 1, {r \in change_map : r.change_id # fcs[i].id}, first)
       ELSE walk_plan_gaps(fcs, i + 1, change_map,
                           IF first = Undefined THEN <<fcs[i]>> ELSE first)

validate_against_plan_gaps(change_rows, plan) ==
  LET w == walk_plan_gaps(full_changes(plan), 1, change_rows, Undefined)
  IN  IF Cardinality(w.change_map) > 0
      THEN [threw |-> TRUE,
            error |-> <<"Found unknown changes",
                        { <<r.change_id, r.change>> : r \in w.change_map }>>,
            value |-> Undefined]
      ELSE [threw |-> FALSE, error |-> Undefined, value |-> w.first_undeployed_change]

\* validate_against_plan on the rows the query returned: it throws the error
\* that lists every row left in change_map, or returns the first undeployed
\* change (undefined when the walk reached the end of the plan).
validate_against_plan(change_rows, plan) ==
  LET w == walk_plan(full_changes(plan), 1, change_rows)
  IN  IF Cardinality(w.change_map) > 0
      THEN [threw |-> TRUE,
            error |-> <<"Found unknown changes",
                        { <<r.change_id, r.change>> : r \in w.change_map }>>,
            value |-> Undefined]
      ELSE [threw |-> FALSE, error |-> Undefined, value |-> w.first_undeployed_change]

\* The last change the generator yields, as the async closure of the revert
\* command computes it: its id, or undefined for an empty plan.
last_change_id(plan) ==
  LET fcs == full_changes(plan)
  IN  IF Len(fcs) = 0 THEN Undefined ELSE fcs[Len(fcs)].id

\* Variant: the first undeployed change itself is taken, not its parent.
last_deployed_change_id_not_parent(first_undeployed_change, plan) ==
  IF first_undeployed_change # Undefined
  THEN first_undeployed_change[1].id
  ELSE last_change_id(plan)

\* last_deployed_change_id of the revert command.
last_deployed_change_id(first_undeployed_change, plan) ==
  IF first_undeployed_change # Undefined
  THEN first_undeployed_change[1].parent
  ELSE last_change_id(plan)

\* The lookup loop of the revert command: the first change of the plan with
\* the given id, or undefined.
RECURSIVE find_change(_, _, _)
find_change(fcs, i, id) ==
  IF i > Len(fcs) THEN Undefined
  ELSE IF fcs[i].id = id THEN <<fcs[i]>>
  ELSE find_change(fcs, i + 1, id)

\* String.prototype.split(";"): the pieces between the separators.
RECURSIVE split_semicolon(_)
split_semicolon(sql) ==
  IF \A i \in 1..Len(sql) : sql[i] # ";" THEN <<sql>>
  ELSE LET i == CHOOSE k \in 1..Len(sql) :
                  sql[k] = ";" /\ \A j \in 1..(k - 1) : sql[j] # ";"
       IN  <<SubSeq(sql, 1, i - 1)>> \o split_semicolon(SubSeq(sql, i + 1, Len(sql)))

\* The statements execute_multiple_statements runs, in order.
split_statements(sql) ==
  LET pieces == split_semicolon(sql)
      trimmed == [i \in 1..Len(pieces) |-> trim(pieces[i])]
  IN  SelectSeq(trimmed, LAMBDA st : Len(st) # 0)

\* The contents Deno.readTextFile may find in revert/<name>.sql.
Scripts ==
  { <<>>,
    <<"A">>,
    <<" ", "A", ";", ";", "\n", "B", ";">> }

\* The row log_registry_event inserts into `events` (committed_at, the clock
\* reading, is left out).
event_row(event, change, project_name) ==
  [event |-> event, change_id |-> change.id, change |-> change.name,
   project |-> project_name, note |-> change.note,
   requires |-> "", conflicts |-> "", tags |-> "",
   committer_name |-> "quitch", committer_email |-> "quitch@quitch",
   planned_at |-> change.date,
   planner_name |-> change.planner, planner_email |-> change.planner]

\* ---------------------------------------------------------------- state
VARIABLES
  plan,            \* the parsed plan file (read-only)
  registry_schema, \* the registry database: "absent", "created" (no tables), "ready"
  changes,         \* rows of the registry's `changes` table
  events,          \* rows of the registry's `events` table, in insertion order
  target,          \* statements applied to the target database, in order
  proc,            \* per invocation: position and local variables
  runs,            \* invocations started so far
  hist,            \* per invocation: the database as it was at its start, and
                   \* the calls it made on the databases since, in order
  call             \* a library function called on its own: its arguments,
                   \* its position and its result; undefined under main.ts

vars == <<plan, registry_schema, changes, events, target, proc, runs, hist, call>>

IdleProc ==
  [pc |-> "idle", cmd |-> "none",
   db |-> FALSE, registry |-> FALSE, must_apply_registry_schema |-> FALSE,
   change_rows |-> {}, validated |-> "no", error |-> Undefined,
   first_undeployed_change |-> Undefined,
   last_deployed_change |-> Undefined,
   revert_sql |-> Undefined, statements |-> <<>>, next_statement |-> 1,
   script |-> "none", message |-> "", exit_code |-> -1]

EmptyHist == [changes |-> {}, events |-> <<>>, target |-> <<>>, log |-> <<>>]

Init ==
  /\ plan \in Plans
  /\ registry_schema \in {"absent", "ready"}
  /\ changes \in IF registry_schema = "ready"
                 THEN SUBSET (PlanRows(plan) \cup ForeignRows)
                 ELSE {{}}
  /\ events = <<>>
  /\ target = <<>>
  /\ proc = [p \in Procs |-> IdleProc]
  /\ runs = 0
  /\ hist = [p \in Procs |-> EmptyHist]
  /\ call = Undefined

\* ------------------------------------------------------------- helpers
Set(p, rec) == proc' = [proc EXCEPT ![p] = rec]
Log(p, entry) == hist' = [hist EXCEPT ![p].log = Append(@, entry)]

\* An uncaught exception, or Deno.exit(1): the process ends with status 1.
Exit(rec, message, code) == [rec EXCEPT !.pc = "exited", !.message = message, !.exit_code = code]

Finished(p) == proc[p].pc \in {"idle", "exited"}

\* ------------------------------------------------------------- actions

\* `quitch revert ...` is started: arguments parsed, plan loaded.
StartRevert(p) ==
  /\ runs < MaxRuns
  /\ Finished(p)
  /\ runs' = runs + 1
  /\ Set(p, [IdleProc EXCEPT !.pc = "connect_db", !.cmd = "revert"])
  /\ hist' = [hist EXCEPT ![p] = [changes |-> changes, events |-> events,
                                  target |-> target, log |-> <<>>]]
  /\ UNCHANGED <<call, plan, registry_schema, changes, events, target>>

\* Variant: the command reports success.
Deploy_exit_0(p) ==
  /\ runs < MaxRuns
  /\ Finished(p)
  /\ runs' = runs + 1
  /\ Set(p, Exit([IdleProc EXCEPT !.cmd = "deploy"], "Not implemented", 0))
  /\ hist' = [hist EXCEPT ![p] = [changes |-> changes, events |-> events,
                                  target |-> target, log |-> <<>>]]
  /\ UNCHANGED <<call, plan, registry_schema, changes, events, target>>

\* `quitch deploy ...`: the body is commented out; it prints "Not implemented"
\* and exits with status 1.
Deploy(p) ==
  /\ runs < MaxRuns
  /\ Finished(p)
  /\ runs' = runs + 1
  /\ Set(p, Exit([IdleProc EXCEPT !.cmd = "deploy"], "Not implemented", 1))
  /\ hist' = [hist EXCEPT ![p] = [changes |-> changes, events |-> events,
                                  target |-> target, log |-> <<>>]]
  /\ UNCHANGED <<call, plan, registry_schema, changes, events, target>>

\* connect_db(args): connect, then SELECT 1.
ConnectDb(p) ==
  /\ proc[p].pc = "connect_db"
  /\ \E ok \in BOOLEAN, opened \in BOOLEAN :
       Set(p, IF ok
              THEN [proc[p] EXCEPT !.db = TRUE, !.pc = "schema_query"]
              ELSE Exit([proc[p] EXCEPT !.db = opened], "uncaught: connect", 1))
  /\ UNCHANGED <<call, plan, registry_schema, changes, events, target, runs, hist>>

\* create_schema_if_not_exists: the lookup in information_schema.
SchemaQuery(p) ==
  /\ proc[p].pc = "schema_query"
  /\ \E ok \in BOOLEAN :
       Set(p, IF ~ok THEN Exit(proc[p], "uncaught: schema lookup", 1)
              ELSE IF registry_schema # "absent"
              THEN [proc[p] EXCEPT !.pc = "connect_registry"]
              ELSE [proc[p] EXCEPT !.pc = "create_schema"])
  /\ UNCHANGED <<call, plan, registry_schema, changes, events, target, runs, hist>>

\* create_schema_if_not_exists: `create schema <name>`.
CreateSchema(p) ==
  /\ proc[p].pc = "create_schema"
  /\ \E ok \in BOOLEAN :
       IF ok /\ registry_schema = "absent"
       THEN /\ registry_schema' = "created"
            /\ Set(p, [proc[p] EXCEPT !.must_apply_registry_schema = TRUE,
                                      !.pc = "connect_registry"])
       ELSE /\ Set(p, Exit(proc[p], "uncaught: create schema", 1))
            /\ UNCHANGED registry_schema
  /\ UNCHANGED <<call, plan, changes, events, target, runs, hist>>

\* connect_db({...args, db: registry_name}).
ConnectRegistry(p) ==
  /\ proc[p].pc = "connect_registry"
  /\ \E ok \in BOOLEAN, opened \in BOOLEAN :
       Set(p, IF ok
              THEN [proc[p] EXCEPT !.registry = TRUE,
                                   !.pc = IF proc[p].must_apply_registry_schema
                                          THEN "apply_schema" ELSE "validate"]
              ELSE Exit([proc[p] EXCEPT !.registry = opened], "uncaught: connect", 1))
  /\ UNCHANGED <<call, plan, registry_schema, changes, events, target, runs, hist>>

\* The registry schema is applied to a newly created registry.
ApplySchema(p) ==
  /\ proc[p].pc = "apply_schema"
  /\ \E ok \in BOOLEAN :
       IF ok
       THEN /\ registry_schema' = "ready"
            /\ Set(p, [proc[p] EXCEPT !.pc = "validate"])
       ELSE /\ Set(p, Exit(proc[p], "uncaught: apply schema", 1))
            /\ UNCHANGED registry_schema
  /\ UNCHANGED <<call, plan, changes, events, target, runs, hist>>

\* Variant: the exception of validate_against_plan is caught and the command
\* goes on.
Validate_swallow(p) ==
  /\ proc[p].pc = "validate"
  /\ \E ok \in BOOLEAN :
       IF ok /\ registry_schema = "ready"
       THEN LET r == validate_against_plan(changes, plan)
                read == [proc[p] EXCEPT !.change_rows = changes]
            IN  Set(p, IF r.threw
                       THEN [read EXCEPT !.validated = "threw", !.error = r.error,
                                         !.pc = "select"]
                       ELSE [read EXCEPT !.validated = "returned",
                                         !.first_undeployed_change = r.value,
                                         !.pc = "select"])
       ELSE Set(p, Exit(proc[p], "uncaught: query", 1))
  /\ UNCHANGED <<call, plan, registry_schema, changes, events, target, runs, hist>>

\* validate_against_plan(registry, plan) as the revert command calls it: the
\* query of `changes`, then the walk; an exception ends the process.
Validate(p) ==
  /\ proc[p].pc = "validate"
  /\ \E ok \in BOOLEAN :
       IF ok /\ registry_schema = "ready"
       THEN LET r == validate_against_plan(changes, plan)
                read == [proc[p] EXCEPT !.change_rows = changes]
            IN  Set(p, IF r.threw
                       THEN Exit([read EXCEPT !.validated = "threw", !.error = r.error],
                                 "uncaught: Found unknown changes", 1)
                       ELSE [read EXCEPT !.validated = "returned",
                                         !.first_undeployed_change = r.value,
                                         !.pc = "select"])
       ELSE Set(p, Exit(proc[p], "uncaught: query", 1))
  /\ UNCHANGED <<call, plan, registry_schema, changes, events, target, runs, hist>>

\* Variant: the registry rows are read again when the target is chosen.
SelectTarget_reread(p) ==
  /\ proc[p].pc = "select"
  /\ LET r == validate_against_plan(changes, plan)
         id == IF r.threw THEN Undefined ELSE last_deployed_change_id(r.value, plan)
         found == find_change(full_changes(plan), 1, id)
     IN  Set(p, IF id = Undefined THEN Exit(proc[p], "Nothing to revert", 1)
                ELSE IF found = Undefined THEN Exit(proc[p], "uncaught: Panic!", 1)
                ELSE [proc[p] EXCEPT !.last_deployed_change = found,
                                     !.pc = "read_script"])
  /\ UNCHANGED <<call, plan, registry_schema, changes, events, target, runs, hist>>

\* "Find the last deployed change": its id, then the change with that id.
SelectTarget(p) ==
  /\ proc[p].pc = "select"
  /\ LET id == last_deployed_change_id(proc[p].first_undeployed_change, plan)
         found == find_change(full_changes(plan), 1, id)
     IN  Set(p, IF id = Undefined THEN Exit(proc[p], "Nothing to revert", 1)
                ELSE IF found = Undefined THEN Exit(proc[p], "uncaught: Panic!", 1)
                ELSE [proc[p] EXCEPT !.last_deployed_change = found,
                                     !.pc = "read_script"])
  /\ UNCHANGED <<call, plan, registry_schema, changes, events, target, runs, hist>>

\* Deno.readTextFile(revert_path), outside the try block.
ReadScript(p) ==
  /\ proc[p].pc = "read_script"
  /\ \E found \in BOOLEAN, sql \in Scripts :
       Set(p, IF found
              THEN [proc[p] EXCEPT !.revert_sql = sql,
                                   !.statements = split_statements(sql),
                                   !.pc = "use_connection"]
              ELSE Exit(proc[p], "uncaught: NotFound", 1))
  /\ UNCHANGED <<call, plan, registry_schema, changes, events, target, runs, hist>>

\* db.useConnection(...): a connection is taken; a script without statements
\* is done at once.
UseConnection(p) ==
  /\ proc[p].pc = "use_connection"
  /\ \E ok \in BOOLEAN :
       IF ~ok
       THEN /\ Set(p, [proc[p] EXCEPT !.script = "failed", !.pc = "catch"])
            /\ Log(p, <<"script_end", FALSE>>)
       ELSE IF Len(proc[p].statements) = 0
       THEN /\ Set(p, [proc[p] EXCEPT !.script = "ok", !.pc = "delete"])
            /\ Log(p, <<"script_end", TRUE>>)
       ELSE /\ Set(p, [proc[p] EXCEPT !.pc = "execute"])
            /\ UNCHANGED hist
  /\ UNCHANGED <<call, plan, registry_schema, changes, events, target, runs>>

\* Variant: a failing statement is swallowed inside the loop's caller and the
\* command goes on to the deletion.
Execute_swallow(p) ==
  /\ proc[p].pc = "execute"
  /\ LET i == proc[p].next_statement
         statement == proc[p].statements[i]
     IN  \E ok \in BOOLEAN :
           IF ~ok
           THEN /\ Set(p, [proc[p] EXCEPT !.script = "failed", !.pc = "delete"])
                /\ hist' = [hist EXCEPT ![p].log =
                              @ \o << <<"execute", statement, FALSE>>, <<"script_end", FALSE>> >>]
                /\ UNCHANGED target
           ELSE IF i = Len(proc[p].statements)
           THEN /\ Set(p, [proc[p] EXCEPT !.next_statement = i + 1,
                                          !.script = "ok", !.pc = "delete"])
                /\ hist' = [hist EXCEPT ![p].log =
                              @ \o << <<"execute", statement, TRUE>>, <<"script_end", TRUE>> >>]
                /\ target' = Append(target, statement)
           ELSE /\ Set(p, [proc[p] EXCEPT !.next_statement = i + 1])
                /\ Log(p, <<"execute", statement, TRUE>>)
                /\ target' = Append(target, statement)
  /\ UNCHANGED <<call, plan, registry_schema, changes, events, runs>>

\* Variant: the loop goes on to the next statement after a failing one.
Execute_continue(p) ==
  /\ proc[p].pc = "execute"
  /\ LET i == proc[p].next_statement
         statement == proc[p].statements[i]
     IN  \E ok \in BOOLEAN :
           IF i = Len(proc[p].statements)
           THEN /\ Set(p, [proc[p] EXCEPT !.next_statement = i + 1,
                                          !.script = IF ok THEN "ok" ELSE "failed",
                                          !.pc = IF ok THEN "delete" ELSE "catch"])
                /\ hist' = [hist EXCEPT ![p].log =
                              @ \o << <<"execute", statement, ok>>, <<"script_end", ok>> >>]
                /\ target' = IF ok THEN Append(target, statement) ELSE target
           ELSE /\ Set(p, [proc[p] EXCEPT !.next_statement = i + 1])
                /\ Log(p, <<"execute", statement, ok>>)
                /\ target' = IF ok THEN Append(target, statement) ELSE target
  /\ UNCHANGED <<call, plan, registry_schema, changes, events, runs>>

\* One turn of the loop of execute_multiple_statements.
Execute(p) ==
  /\ proc[p].pc = "execute"
  /\ LET i == proc[p].next_statement
         statement == proc[p].statements[i]
     IN  \E ok \in BOOLEAN :
           IF ~ok
           THEN /\ Set(p, [proc[p] EXCEPT !.script = "failed", !.pc = "catch"])
                /\ hist' = [hist EXCEPT ![p].log =
                              @ \o << <<"execute", statement, FALSE>>, <<"script_end", FALSE>> >>]
                /\ UNCHANGED target
           ELSE IF i = Len(proc[p].statements)
           THEN /\ Set(p, [proc[p] EXCEPT !.next_statement = i + 1,
                                          !.script = "ok", !.pc = "delete"])
                /\ hist' = [hist EXCEPT ![p].log =
                              @ \o << <<"execute", statement, TRUE>>, <<"script_end", TRUE>> >>]
                /\ target' = Append(target, statement)
           ELSE /\ Set(p, [proc[p] EXCEPT !.next_statement = i + 1])
                /\ Log(p, <<"execute", statement, TRUE>>)
                /\ target' = Append(target, statement)
  /\ UNCHANGED <<call, plan, registry_schema, changes, events, runs>>

\* Variant: the row is matched by the change's name (`where change = ?`).
DeleteRow_by_name(p) ==
  /\ proc[p].pc = "delete"
  /\ LET id == proc[p].last_deployed_change[1].id
         name == proc[p].last_deployed_change[1].name
     IN  \E ok \in BOOLEAN :
           /\ Log(p, <<"delete", id, ok>>)
           /\ IF ok
              THEN /\ changes' = {r \in changes : r.change # name}
                   /\ Set(p, [proc[p] EXCEPT !.pc = "log_revert"])
              ELSE /\ UNCHANGED changes
                   /\ Set(p, [proc[p] EXCEPT !.pc = "catch"])
  /\ UNCHANGED <<call, plan, registry_schema, events, target, runs>>

\* Variant: the deletion is issued before the script is awaited.
DeleteRow_early(p) ==
  /\ proc[p].pc \in {"use_connection", "delete"}
  /\ \A i \in 1..Len(hist[p].log) : hist[p].log[i][1] # "delete"
  /\ LET id == proc[p].last_deployed_change[1].id
     IN  \E ok \in BOOLEAN :
           /\ Log(p, <<"delete", id, ok>>)
           /\ IF ok
              THEN /\ changes' = {r \in changes : r.change_id # id}
                   /\ Set(p, [proc[p] EXCEPT !.pc = IF @ = "delete" THEN "log_revert" ELSE @])
              ELSE /\ UNCHANGED changes
                   /\ Set(p, [proc[p] EXCEPT !.pc = IF @ = "delete" THEN "catch" ELSE @])
  /\ UNCHANGED <<call, plan, registry_schema, events, target, runs>>

\* Variant: the row deleted is the one of the plan's first change.
DeleteRow_first(p) ==
  /\ proc[p].pc = "delete"
  /\ LET id == proc[p].last_deployed_change[1].id
         first_id == full_changes(plan)[1].id
     IN  \E ok \in BOOLEAN :
           /\ Log(p, <<"delete", id, ok>>)
           /\ IF ok
              THEN /\ changes' = {r \in changes : r.change_id # first_id}
                   /\ Set(p, [proc[p] EXCEPT !.pc = "log_revert"])
              ELSE /\ UNCHANGED changes
                   /\ Set(p, [proc[p] EXCEPT !.pc = "catch"])
  /\ UNCHANGED <<call, plan, registry_schema, events, target, runs>>

\* registry.execute("delete from `changes` where change_id = ?", [id]).
DeleteRow(p) ==
  /\ proc[p].pc = "delete"
  /\ LET id == proc[p].last_deployed_change[1].id
     IN  \E ok \in BOOLEAN :
           /\ Log(p, <<"delete", id, ok>>)
           /\ IF ok
              THEN /\ changes' = {r \in changes : r.change_id # id}
                   /\ Set(p, [proc[p] EXCEPT !.pc = "log_revert"])
              ELSE /\ UNCHANGED changes
                   /\ Set(p, [proc[p] EXCEPT !.pc = "catch"])
  /\ UNCHANGED <<call, plan, registry_schema, events, target, runs>>

\* log_registry_event("revert", ...), the last call of the try block.
LogRevert(p) ==
  /\ proc[p].pc = "log_revert"
  /\ LET change == proc[p].last_deployed_change[1]
     IN  \E ok \in BOOLEAN :
           /\ Log(p, <<"event", "revert", change.id, ok>>)
           /\ IF ok
              THEN /\ events' = Append(events, event_row("revert", change, plan.project))
                   /\ Set(p, Exit(proc[p], "", 0))
              ELSE /\ UNCHANGED events
                   /\ Set(p, [proc[p] EXCEPT !.pc = "catch"])
  /\ UNCHANGED <<call, plan, registry_schema, changes, target, runs>>

\* The catch block: log_registry_event("fail", ...), then Deno.exit(1).
LogFail(p) ==
  /\ proc[p].pc = "catch"
  /\ LET change == proc[p].last_deployed_change[1]
     IN  \E ok \in BOOLEAN :
           /\ Log(p, <<"event", "fail", change.id, ok>>)
           /\ IF ok
              THEN /\ events' = Append(events, event_row("fail", change, plan.project))
                   /\ Set(p, Exit(proc[p], "Failed to revert", 1))
              ELSE /\ UNCHANGED events
                   /\ Set(p, Exit(proc[p], "uncaught: insert", 1))
  /\ UNCHANGED <<call, plan, registry_schema, changes, target, runs>>

Step(p) ==
  \/ ConnectDb(p) \/ SchemaQuery(p) \/ CreateSchema(p) \/ ConnectRegistry(p)
  \/ ApplySchema(p) \/ Validate(p) \/ SelectTarget(p) \/ ReadScript(p)
  \/ UseConnection(p) \/ Execute(p) \/ DeleteRow(p) \/ LogRevert(p) \/ LogFail(p)

\* One operator at the terminal: an invocation starts when none is running.
Next ==
  \E p \in Procs :
    \/ (\A q \in Procs : Finished(q)) /\ (StartRevert(p) \/ Deploy(p))
    \/ Step(p)

Spec == Init /\ [][Next]_vars

\* ------------------------------------------- two operators, one registry
\* Two invocations of revert that may overlap: nothing in main.ts makes one
\* wait for the other.  The registry is absent, or holds a plan prefix.
RaceProcs == {1, 2}
MaxRacePlanLen == 2

RaceInit ==
  /\ plan \in { pl \in Plans : Len(pl.changes) <= MaxRacePlanLen }
  /\ registry_schema \in {"absent", "ready"}
  /\ changes \in IF registry_schema = "ready"
                 THEN { { RowOf(full_changes(plan)[i]) : i \in 1..k } : k \in 0..Len(plan.changes) }
                 ELSE {{}}
  /\ events = <<>>
  /\ target = <<>>
  /\ proc = [p \in RaceProcs |-> IdleProc]
  /\ runs = 0
  /\ hist = [p \in RaceProcs |-> EmptyHist]
  /\ call = Undefined

\* Each operator runs `quitch revert` once.
RaceStart(p) ==
  /\ proc[p].pc = "idle"
  /\ StartRevert(p)

RaceNext == \E p \in RaceProcs : RaceStart(p) \/ Step(p)

RaceSpec == RaceInit /\ [][RaceNext]_vars

\* ------------------------------------------ Plan.full_changes, consumed
\* The program's state while a library function is called on its own.
main_vars == <<registry_schema, changes, events, target, proc, runs, hist>>

NoMain ==
  /\ registry_schema = "absent"
  /\ changes = {}
  /\ events = <<>>
  /\ target = <<>>
  /\ proc = [p \in Procs |-> IdleProc]
  /\ runs = 0
  /\ hist = [p \in Procs |-> EmptyHist]

\* full_changes(plan) is called: the generator object exists, its body has
\* not started.  `i` counts the changes the for-of loop has taken, `nexts`
\* the calls of next().
GenInit ==
  /\ plan \in Plans
  /\ NoMain
  /\ call = [fn |-> "full_changes", pc |-> "start", i |-> 0,
             parent_id |-> Undefined, change_id |-> Undefined,
             yielded |-> <<>>, nexts |-> 0, returned |-> FALSE]

\* Variant: parent_id is never assigned.
Gen_next_no_parent ==
  /\ call.pc \in {"start", "yield"}
  /\ IF call.i = Len(plan.changes)
     THEN call' = [call EXCEPT !.pc = "done", !.nexts = @ + 1]
     ELSE LET change == plan.changes[call.i + 1]
              change_id == Change_id(plan.project, change, Undefined)
          IN  call' = [call EXCEPT
                 !.pc = "yield", !.i = @ + 1, !.nexts = @ + 1,
                 !.change_id = change_id,
                 !.yielded = Append(@, [name |-> change.name, note |-> change.note,
                                        date |-> change.date, planner |-> change.planner,
                                        id |-> change_id, parent |-> Undefined])]
  /\ UNCHANGED <<plan, main_vars>>

\* next(): the body runs to its next yield or to its end.  Resumed after a
\* yield it first assigns parent_id = change_id.
Gen_next ==
  /\ call.pc \in {"start", "yield"}
  /\ LET parent_id == IF call.pc = "yield" THEN call.change_id ELSE call.parent_id
     IN  IF call.i = Len(plan.changes)
         THEN call' = [call EXCEPT !.pc = "done", !.nexts = @ + 1, !.parent_id = parent_id]
         ELSE LET change == plan.changes[call.i + 1]
                  change_id == Change_id(plan.project, change, parent_id)
              IN  call' = [call EXCEPT
                     !.pc = "yield", !.i = @ + 1, !.nexts = @ + 1,
                     !.parent_id = parent_id, !.change_id = change_id,
                     !.yielded = Append(@, [name |-> change.name, note |-> change.note,
                                            date |-> change.date, planner |-> change.planner,
                                            id |-> change_id, parent |-> parent_id])]
  /\ UNCHANGED <<plan, main_vars>>

\* return(): the consumer leaves its for-await loop (validate_against_plan's
\* break); the generator is finished without running further.
Gen_return ==
  /\ call.pc \in {"start", "yield"}
  /\ call' = [call EXCEPT !.pc = "done", !.returned = TRUE]
  /\ UNCHANGED <<plan, main_vars>>

GenNext == Gen_next \/ Gen_return

GenSpec == GenInit /\ [][GenNext]_vars

\* --------------------------------------- library functions on their own
\* The functions of change.ts and plan.ts called on their own, as the tests
\* call them: `call` holds the function, its arguments and, once it has
\* returned, its result.

\* Two plans that differ in one field of the change at position `at`.
FieldValues ==
  [name |-> {<<"a">>, <<"b">>}, note |-> {<<"x">>, <<"y">>},
   date |-> {1000, 1500, 2500}, planner |-> {<<"p">>, <<"q">>}]

ChainCalls ==
  UNION { { [fn |-> "full_changes twice", pc |-> "call", plan |-> pl,
             other |-> [pl EXCEPT !.changes[i][f] = v], at |-> i, field |-> f]
              : pl \in {x \in Plans : i <= Len(x.changes)},
                v \in FieldValues[f] }
          : i \in 1..MaxPlanLen, f \in DOMAIN FieldValues }

\* Changes a plan may hold: names without white space, dates in UTC with
\* and without a fraction of a second, planners with a space or a "#" in
\* them, notes that are empty, span two lines, start with a space, or hold
\* a backslash followed by "n".
TextChanges ==
  { [name |-> <<"a">>, note |-> nt, date |-> d, planner |-> pl]
      : nt \in { <<>>, <<"x", "\n", "y">>, <<" ", "x">>, <<"x", "\\", "n">> },
        d \in {1000, 1500},
        pl \in { <<"p">>, <<"p", " ", "q">>, <<"p", "#", "q">> } }

TextPlans ==
  { [project |-> <<"quitch">>, changes |-> cs] : cs \in SeqsUpTo(TextChanges, MaxFileChanges) }

RoundTripCalls ==
  { [fn |-> "Plan.parse(Plan.format(plan))", pc |-> "call", plan |-> pl] : pl \in TextPlans }

\* Lines a plan file may hold: the syntax line, a blank line, a line of
\* white space, a project line, two change lines, a change line whose date
\* is not a date, a line that stops after the name, a line that stops after
\* the date.
FileLines ==
  { SyntaxLine,
    <<>>,
    <<" ">>,
    <<"%", "project", "=", "quitch">>,
    <<"a", " ", "T", "1", "Z", " ", "p", " ", "#", " ", "x">>,
    <<"b", " ", "T", "2", ".", "5", "Z", " ", "q">>,
    <<"c", " ", "x", " ", "p">>,
    <<"d">>,
    <<"e", " ", "T", "1", "Z">> }

ParseCalls ==
  { [fn |-> "Plan.parse", pc |-> "call", lines |-> ls, plan_text |-> join(ls, "\n")]
      : ls \in SeqsUpTo(FileLines, MaxFileLines) }

\* Change lines: a name, one or two spaces, a date text that is or is not a
\* date, one or two spaces, and a rest with or without "#"; and lines that
\* stop early.
LineDates == { <<"T", "1", "Z">>, <<"T", "2", ".", "5", "Z">>, <<"x">>, <<"T", "1">> }

LineRests ==
  { <<>>, <<"p">>, <<"p", " ">>, <<"p", " ", "q">>, <<"#">>,
    <<"p", " ", "#", " ", "x">>, <<"p", "#", "x">>, <<"p", "#", "q", "#", "x">>,
    <<"p", " ", " ", "#", " ", "x", "\\", "n", "y", " ">> }

LineCalls ==
  { [fn |-> "parse_line", pc |-> "call", date_text |-> d, rest |-> r,
     line |-> <<"a">> \o s1 \o d \o s2 \o r]
      : d \in LineDates, r \in LineRests,
        s1 \in {<<" ">>, <<" ", " ">>}, s2 \in {<<" ">>, <<" ", " ">>} }
  \cup
  { [fn |-> "parse_line", pc |-> "call", date_text |-> Undefined, rest |-> Undefined,
     line |-> l]
      : l \in { <<>>, <<"a">>, <<"a", " ">>, <<"a", " ", "T", "1", "Z">> } }

LineRoundTripCalls ==
  { [fn |-> "parse_line(format_line(change))", pc |-> "call", change |-> c]
      : c \in TextChanges }

\* Change.format's arguments: with and without a parent id.
FormatCalls ==
  { [fn |-> "Change.format", pc |-> "call", project |-> <<"quitch">>,
     change |-> c, parent |-> pa]
      : c \in TextChanges,
        pa \in { Undefined, <<"da41a550b0cba5bd3dffbf645032a98ae1136da5">> } }

\* ------------------------------------------------ main.ts: arguments
\* A command-line argument is a text; an option name is a text of one
\* element.  A URL text has one element per component and per delimiter.
OptionNames == { <<"--target">>, <<"--registry">>, <<"--plan-file">> }

\* parseArgs(args) of std/flags, for "--name value" and "--name": an option
\* followed by a value holds that string, an option followed by another
\* option or by nothing holds true, an option not given is undefined.
RECURSIVE parseArgs(_, _)
parseArgs(args, flags) ==
  IF Len(args) = 0 THEN flags
  ELSE IF args[1] \notin OptionNames THEN parseArgs(Tail(args), flags)
  ELSE IF Len(args) > 1 /\ args[2] \notin OptionNames
       THEN parseArgs(SubSeq(args, 3, Len(args)),
                      [flags EXCEPT ![args[1]] = [type |-> "string", value |-> args[2]]])
       ELSE parseArgs(Tail(args),
                      [flags EXCEPT ![args[1]] = [type |-> "boolean", value |-> TRUE]])

NoFlags == [name \in OptionNames |-> [type |-> "undefined", value |-> Undefined]]

\* parseInt(text, 10) of a text of decimal digits.
RECURSIVE parseInt(_)
parseInt(text) ==
  IF Len(text) = 0 THEN 0
  ELSE parseInt(SubSeq(text, 1, Len(text) - 1)) * 10 + DigitValue(text[Len(text)])

\* new URL(s): scheme ":" "//" [username [":" password] "@"] hostname
\* [":" port] ["/" path].  The constructor throws (ok is FALSE) for a text
\* without a scheme and for a port that is not a number.
new_URL(s) ==
  IF ~(Len(s) >= 4 /\ s[2] = ":" /\ s[3] = "//") THEN [ok |-> FALSE]
  ELSE
  LET after == slice(s, 3)
      path_idx == indexOf(after, "/")
      authority == IF path_idx = -1 THEN after ELSE slice2(after, 0, path_idx)
      pathname == IF path_idx = -1 THEN <<>> ELSE slice(after, path_idx)
      at_idx == indexOf(authority, "@")
      userinfo == IF at_idx = -1 THEN <<>> ELSE slice2(authority, 0, at_idx)
      hostport == IF at_idx = -1 THEN authority ELSE slice(authority, at_idx + 1)
      pw_idx == indexOf(userinfo, ":")
      port_idx == indexOf(hostport, ":")
      port == IF port_idx = -1 THEN <<>> ELSE slice(hostport, port_idx + 1)
  IN  IF \E k \in 1..Len(port) : ~IsDigit(port[k]) THEN [ok |-> FALSE]
      ELSE [ok |-> TRUE,
            protocol |-> <<s[1], ":">>,
            username |-> IF pw_idx = -1 THEN userinfo ELSE slice2(userinfo, 0, pw_idx),
            password |-> IF pw_idx = -1 THEN <<>> ELSE slice(userinfo, pw_idx + 1),
            hostname |-> IF port_idx = -1 THEN hostport ELSE slice2(hostport, 0, port_idx),
            port |-> port,
            pathname |-> pathname]

\* Variant: a URL without a port gives port 0.
parse_connection_string_port_0(s) ==
  LET url == new_URL(s)
  IN  IF ~url.ok THEN result_err("Invalid target")
      ELSE IF url.protocol # <<"mysql", ":">> THEN result_err("Unsupported target protocol")
      ELSE result_ok([hostname |-> url.hostname,
                      port |-> IF url.port # <<>> THEN parseInt(url.port) ELSE 0,
                      username |-> url.username,
                      password |-> url.password,
                      db |-> slice(url.pathname, 1)])

\* parse_connection_string; parseInt does not throw, so its catch clause is
\* never entered.
parse_connection_string(s) ==
  LET url == new_URL(s)
  IN  IF ~url.ok THEN result_err("Invalid target")
      ELSE IF url.protocol # <<"mysql", ":">> THEN result_err("Unsupported target protocol")
      ELSE result_ok([hostname |-> url.hostname,
                      port |-> IF url.port # <<>> THEN parseInt(url.port) ELSE 3306,
                      username |-> url.username,
                      password |-> url.password,
                      db |-> slice(url.pathname, 1)])

\* parse_common_args.  `x as string || default`: the default replaces
\* undefined and the empty string, anything else is kept.
parse_common_args(args) ==
  LET flags == parseArgs(args, NoFlags)
      registry_flag == flags[<<"--registry">>]
      registry == IF \/ registry_flag.type = "undefined"
                     \/ registry_flag.type = "string" /\ registry_flag.value = <<>>
                  THEN <<"sqitch">>
                  ELSE registry_flag.value
      plan_file_flag == flags[<<"--plan-file">>]
      plan_file == IF \/ plan_file_flag.type = "undefined"
                      \/ plan_file_flag.type = "string" /\ plan_file_flag.value = <<>>
                   THEN <<"./sqitch.plan">>
                   ELSE plan_file_flag.value
      target_flag == flags[<<"--target">>]
  IN  IF target_flag.type # "string" \/ target_flag.value = <<>>
      THEN result_err("Missing required argument: --target <target>")
      ELSE LET connection_options_result == parse_connection_string(target_flag.value)
           IN  IF ~connection_options_result.ok THEN connection_options_result
               ELSE result_ok([registry |-> registry, plan_file |-> plan_file,
                               connection_options |-> connection_options_result.value])

\* The command lines under test: --target absent, without a value, empty,
\* not a URL, or a URL made of a scheme, optional credentials, a host, an
\* optional port and an optional database; --registry and --plan-file
\* absent, without a value, empty or with a value.
UrlParts ==
  [scheme : {"mysql", "postgres"}, credentials : BOOLEAN,
   port : {<<>>, <<"7">>, <<"4", "2">>, <<"x">>}, db : {<<>>, <<"db">>}]

UrlText(u) ==
  <<u.scheme, ":", "//">>
  \o (IF u.credentials THEN <<"u", ":", "pw", "@">> ELSE <<>>)
  \o <<"h">>
  \o (IF u.port # <<>> THEN <<":">> \o u.port ELSE <<>>)
  \o (IF u.db # <<>> THEN <<"/">> \o u.db ELSE <<>>)

OptionArgs(name, values) ==
  { <<>>, <<name>> } \cup { <<name, v>> : v \in values }

ArgsCalls ==
  { [fn |-> "parse_common_args", pc |-> "call", target |-> t, registry |-> r,
     plan_file |-> f, args |-> t \o r \o f]
      : t \in OptionArgs(<<"--target">>, {<<>>, <<"db">>} \cup {UrlText(u) : u \in UrlParts}),
        r \in OptionArgs(<<"--registry">>, {<<>>, <<"quitch">>}),
        f \in OptionArgs(<<"--plan-file">>, {<<>>, <<"./quitch.plan">>}) }

PureCalls ==
  { c \in ChainCalls : c.other # c.plan }
  \cup RoundTripCalls
  \cup ParseCalls
  \cup LineCalls
  \cup LineRoundTripCalls
  \cup FormatCalls
  \cup ArgsCalls

PureInit ==
  /\ plan = [project |-> <<"quitch">>, changes |-> <<>>]
  /\ NoMain
  /\ call \in PureCalls

\* plan_test.ts "Plan.format + Plan.parse": the plan is formatted and the
\* text parsed.
Call_Plan_round_trip ==
  /\ call.fn = "Plan.parse(Plan.format(plan))" /\ call.pc = "call"
  /\ LET plan_text == Plan_format(call.plan)
     IN  call' = [fn |-> call.fn, pc |-> "return", plan |-> call.plan,
                  plan_text |-> plan_text, result |-> Plan_parse(plan_text)]
  /\ UNCHANGED <<plan, main_vars>>

\* Plan.parse(plan_text).
Call_Plan_parse ==
  /\ call.fn = "Plan.parse" /\ call.pc = "call"
  /\ call' = [fn |-> call.fn, pc |-> "return", lines |-> call.lines,
              plan_text |-> call.plan_text, result |-> Plan_parse(call.plan_text)]
  /\ UNCHANGED <<plan, main_vars>>

\* Change.parse_line(line).
Call_parse_line ==
  /\ call.fn = "parse_line" /\ call.pc = "call"
  /\ call' = [fn |-> call.fn, pc |-> "return", date_text |-> call.date_text,
              rest |-> call.rest, line |-> call.line, result |-> parse_line(call.line)]
  /\ UNCHANGED <<plan, main_vars>>

\* The change tests "Change.format_line + Change.parse_line": the change is
\* formatted and the line parsed.
Call_line_round_trip ==
  /\ call.fn = "parse_line(format_line(change))" /\ call.pc = "call"
  /\ LET line == format_line(call.change)
     IN  call' = [fn |-> call.fn, pc |-> "return", change |-> call.change,
                  line |-> line, result |-> parse_line(line)]
  /\ UNCHANGED <<plan, main_vars>>

\* Change.format(project, change, parent).
Call_Change_format ==
  /\ call.fn = "Change.format" /\ call.pc = "call"
  /\ call' = [fn |-> call.fn, pc |-> "return", project |-> call.project,
              change |-> call.change, parent |-> call.parent,
              result |-> Change_format(call.project, call.change, call.parent)]
  /\ UNCHANGED <<plan, main_vars>>

\* parse_common_args(args).
Call_parse_common_args ==
  /\ call.fn = "parse_common_args" /\ call.pc = "call"
  /\ call' = [fn |-> call.fn, pc |-> "return", target |-> call.target,
              registry |-> call.registry, plan_file |-> call.plan_file,
              args |-> call.args, result |-> parse_common_args(call.args)]
  /\ UNCHANGED <<plan, main_vars>>

\* Every id of both plans, in plan order.
Call_full_changes_twice ==
  /\ call.fn = "full_changes twice" /\ call.pc = "call"
  /\ LET fcs == full_changes(call.plan)
         other_fcs == full_changes(call.other)
     IN  call' = [fn |-> call.fn, pc |-> "return", plan |-> call.plan,
                  other |-> call.other, at |-> call.at, field |-> call.field,
                  ids |-> [j \in 1..Len(fcs) |-> fcs[j].id],
                  other_ids |-> [j \in 1..Len(other_fcs) |-> other_fcs[j].id]]
  /\ UNCHANGED <<plan, main_vars>>

PureNext ==
  \/ Call_full_changes_twice
  \/ Call_Plan_round_trip
  \/ Call_Plan_parse
  \/ Call_parse_line
  \/ Call_line_round_trip
  \/ Call_Change_format
  \/ Call_parse_common_args

PureSpec == PureInit /\ [][PureNext]_vars

\* ============================================================== claims
\* Vocabulary of the claims (not code).
FC == full_changes(plan)
N == Len(plan.changes)
Ids(rows) == { r.change_id : r \in rows }
ChainIds(k) == LET fcs == FC IN { fcs[i].id : i \in 1..k }
Target(p) == proc[p].last_deployed_change[1]
\* The database as the invocation found it.
DatabaseUntouched(p) ==
  /\ changes = hist[p].changes
  /\ events = hist[p].events
  /\ target = hist[p].target
\* The registry calls (deletions and event insertions) the invocation made.
RegistryCalls(p) == SelectSeq(hist[p].log, LAMBDA e : e[1] \in {"delete", "event"})
\* The events appended since the invocation started.
NewEvents(p) == SubSeq(events, Len(hist[p].events) + 1, Len(events))

\* C1: when the change ids read from the registry are exactly the ids of the
\* first k changes of the plan's chain, validate_against_plan returns (does
\* not throw), and its result is the (k+1)-th plan change with its id and
\* parent when k < n, and undefined when k = n.
C1_PrefixRegistryGivesNextChange ==
  \A p \in Procs :
    proc[p].validated # "no" =>
      LET fcs == FC
          ids == Ids(proc[p].change_rows)
      IN  \A k \in 0..N :
            ids = { fcs[i].id : i \in 1..k } =>
              /\ proc[p].validated = "returned"
              /\ IF k = N THEN proc[p].first_undeployed_change = Undefined
                 ELSE /\ Len(proc[p].first_undeployed_change) = 1
                      /\ LET c == proc[p].first_undeployed_change[1]
                         IN  /\ c.name = plan.changes[k + 1].name
                             /\ c.note = plan.changes[k + 1].note
                             /\ c.date = plan.changes[k + 1].date
                             /\ c.planner = plan.changes[k + 1].planner
                             /\ c.id = fcs[k + 1].id
                             /\ c.parent = IF k = 0 THEN Undefined ELSE fcs[k].id

C1_Witness ==
  \E p \in Procs : \E k \in 1..(N - 1) :
    /\ proc[p].validated = "returned"
    /\ Ids(proc[p].change_rows) = ChainIds(k)
    /\ proc[p].first_undeployed_change = <<FC[k + 1]>>

\* The registry ids the claim C2 calls unmatched: those no change of the chain
\* produces, and those of plan changes after the first plan change missing
\* from the registry.
Unmatched(rows) ==
  LET fcs == FC
      ids == Ids(rows)
  IN  { id \in ids : id \notin ChainIds(N) }
      \cup { fcs[i].id : i \in { i \in 1..N : /\ fcs[i].id \in ids
                                             /\ \E j \in 1..(i - 1) : fcs[j].id \notin ids } }

\* C2: whenever some registry id is unmatched, validate_against_plan throws
\* the consistency error, returns no first undeployed change, and the error
\* lists every unmatched id (and nothing else).
C2_UnmatchedIdsGiveConsistencyError ==
  \A p \in Procs :
    (proc[p].validated # "no" /\ Unmatched(proc[p].change_rows) # {}) =>
      /\ proc[p].validated = "threw"
      /\ proc[p].first_undeployed_change = Undefined
      /\ proc[p].error # Undefined
      /\ { e[1] : e \in proc[p].error[2] } = Unmatched(proc[p].change_rows)

C2_Witness ==
  \E p \in Procs :
    /\ proc[p].validated = "threw"
    /\ \E id \in Ids(proc[p].change_rows) : id \notin ChainIds(N)
    /\ \E i \in 2..N : FC[i].id \in Ids(proc[p].change_rows)
                       /\ FC[i - 1].id \notin Ids(proc[p].change_rows)
    /\ Cardinality(proc[p].error[2]) = 2

\* C3: when validation ends in the consistency error the revert invocation
\* stops there, with a non-zero status: it selected no target, executed no
\* statement, deleted no row and appended no event.
C3_ConsistencyErrorStopsRevert ==
  \A p \in Procs :
    proc[p].validated = "threw" =>
      /\ proc[p].pc = "exited"
      /\ proc[p].exit_code # 0
      /\ proc[p].last_deployed_change = Undefined
      /\ hist[p].log = <<>>
      /\ DatabaseUntouched(p)

C3_Witness ==
  \E p \in Procs :
    /\ proc[p].cmd = "revert"
    /\ proc[p].validated = "threw"
    /\ proc[p].pc = "exited"
    /\ \E k \in 1..N : FC[k].id \in Ids(changes)

\* The number of changes the reconciler found deployed: the position before
\* its first undeployed change, or n when there is none.
Deployed(p) ==
  IF proc[p].first_undeployed_change = Undefined THEN N
  ELSE LET fcs == FC
       IN  (CHOOSE i \in 1..N : fcs[i].id = proc[p].first_undeployed_change[1].id) - 1

\* C4: on a consistent registry revert targets the plan change right before
\* the first undeployed change, or the plan's last change when all are
\* deployed; when none is deployed it says "Nothing to revert", exits with an
\* error status and touches neither database.
C4_RevertTargetSelection ==
  \A p \in Procs :
    (proc[p].validated = "returned" /\ proc[p].pc # "select") =>
      LET k == Deployed(p)
      IN
      IF k = 0
      THEN /\ proc[p].pc = "exited"
           /\ proc[p].message = "Nothing to revert"
           /\ proc[p].exit_code # 0
           /\ proc[p].last_deployed_change = Undefined
           /\ hist[p].log = <<>>
           /\ DatabaseUntouched(p)
      ELSE /\ proc[p].last_deployed_change = <<FC[k]>>
           /\ proc[p].message # "Nothing to revert"

C4_Witness ==
  \E p \in Procs :
    /\ proc[p].validated = "returned"
    /\ proc[p].first_undeployed_change # Undefined
    /\ Deployed(p) = 2
    /\ proc[p].last_deployed_change = <<FC[2]>>
    /\ proc[p].pc = "read_script"

\* The plan change the invocation targets, as the plan file has it.
TargetInPlan(p) ==
  LET fcs == FC IN plan.changes[CHOOSE i \in 1..N : fcs[i].id = Target(p).id]

IsEventFor(e, kind, p) ==
  /\ e.event = kind
  /\ e.change_id = Target(p).id
  /\ e.change = TargetInPlan(p).name
  /\ e.project = plan.project
  /\ e.note = TargetInPlan(p).note

\* What a successful revert leaves: the rows found at the start without the
\* row of the target's id, and one more event, the target's "revert".
RevertedExactlyTarget(p) ==
  /\ changes = { r \in hist[p].changes : r.change_id # Target(p).id }
  /\ Len(NewEvents(p)) = 1
  /\ IsEventFor(NewEvents(p)[1], "revert", p)
  /\ RegistryCalls(p) = << <<"delete", Target(p).id, TRUE>>,
                           <<"event", "revert", Target(p).id, TRUE>> >>

Executed(p) == SelectSeq(hist[p].log, LAMBDA e : e[1] = "execute")

\* What a failed script leaves whether or not the "fail" event could be
\* written: the registry rows as found, no deletion and no "revert" event
\* attempted, each statement sent at most once and none after the failing
\* one, one attempt to insert the "fail" event, a non-zero status.
FailedScriptCommon(p) ==
  /\ changes = hist[p].changes
  /\ \E ok \in BOOLEAN : RegistryCalls(p) = << <<"event", "fail", Target(p).id, ok>> >>
  /\ Len(Executed(p)) <= Len(proc[p].statements)
  /\ \A i \in 1..Len(Executed(p)) :
       /\ Executed(p)[i][2] = proc[p].statements[i]
       /\ Executed(p)[i][3] = (i < Len(Executed(p)))
  /\ target = hist[p].target
              \o [i \in 1..(Len(Executed(p)) - 1) |-> proc[p].statements[i]]
  /\ proc[p].exit_code # 0

C7_RegistryOnlyAfterScript ==
  \A p \in Procs :
    /\ (proc[p].cmd = "revert" /\ proc[p].script = "none") =>
         /\ changes = hist[p].changes
         /\ events = hist[p].events
         /\ RegistryCalls(p) = <<>>
    /\ \A i \in 1..Len(hist[p].log) :
         hist[p].log[i][1] \in {"delete", "event"} =>
           /\ \E j \in 1..(i - 1) : hist[p].log[j][1] = "script_end"
           /\ \A j \in (i + 1)..Len(hist[p].log) :
                hist[p].log[j][1] \notin {"execute", "script_end"}

C7_Witness ==
  \E p \in Procs :
    /\ Len(hist[p].log) = 4
    /\ hist[p].log[1][1] = "execute"
    /\ hist[p].log[2] = <<"script_end", TRUE>>
    /\ hist[p].log[3][1] = "delete"
    /\ hist[p].log[4][1] = "event"

\* The id of the last deployed change according to the rows read at
\* validation: every plan change up to it is in the rows, none after it is
\* (a set: empty when no position qualifies).
ReconciledLast(rows) ==
  LET fcs == FC
      ids == Ids(rows)
  IN  { fcs[k].id : k \in { k \in 1..N : /\ \A j \in 1..k : fcs[j].id \in ids
                                         /\ \A j \in (k + 1)..N : fcs[j].id \notin ids } }

\* C8: every deletion and every event of a revert invocation is for the
\* change the reconciler found to be the last deployed one (its id and the
\* ids of all plan changes before it were in the rows read at validation, no
\* later plan change's was); no other row disappears and no event is
\* appended for another change.
C8_OnlyTheReconciledChange ==
  \A p \in Procs :
    LET calls == RegistryCalls(p)
        new == NewEvents(p)
        last == ReconciledLast(proc[p].change_rows)
    IN  /\ \A i \in 1..Len(calls) :
             (IF calls[i][1] = "delete" THEN calls[i][2] ELSE calls[i][3]) \in last
        /\ \A r \in hist[p].changes \ changes : r.change_id \in last
        /\ \A i \in 1..Len(new) : new[i].change_id \in last

C8_Witness ==
  \E p \in Procs :
    /\ N = 3
    /\ ReconciledLast(proc[p].change_rows) = {FC[2].id}
    /\ hist[p].changes # changes
    /\ Len(NewEvents(p)) = 1

\* C9 as stated: every revert invocation that passed validation and selected
\* a target has, when it ends, appended an event for that target: "revert" if
\* it ended well, "fail" otherwise.
C9_AsStated ==
  \A p \in Procs :
    (proc[p].pc = "exited" /\ proc[p].last_deployed_change # Undefined) =>
      /\ Len(NewEvents(p)) >= 1
      /\ IsEventFor(NewEvents(p)[Len(NewEvents(p))],
                    IF proc[p].exit_code = 0 THEN "revert" ELSE "fail", p)

\* C10 as stated: on a consistent registry with undeployed changes, deploy
\* leaves a row and a "deploy" event for every plan change from the first
\* undeployed one on.
C10_AsStated ==
  \A p \in Procs :
    ( /\ proc[p].cmd = "deploy" /\ proc[p].pc = "exited"
      /\ registry_schema = "ready"
      /\ \E k \in 0..(N - 1) : Ids(hist[p].changes) = ChainIds(k) )
    => /\ Ids(changes) = ChainIds(N)
       /\ \A i \in 1..N :
            FC[i].id \notin Ids(hist[p].changes) =>
              \E j \in 1..Len(NewEvents(p)) :
                NewEvents(p)[j].event = "deploy" /\ NewEvents(p)[j].change_id = FC[i].id

\* C10 amended: the deploy command is not implemented: it reports "Not
\* implemented" and exits with status 1 without opening a connection,
\* executing a script, inserting a row or appending an event.
C10_DeployNotImplemented ==
  \A p \in Procs :
    proc[p].cmd = "deploy" =>
      /\ proc[p].pc = "exited"
      /\ proc[p].message = "Not implemented"
      /\ proc[p].exit_code = 1
      /\ ~proc[p].db /\ ~proc[p].registry
      /\ hist[p].log = <<>>
      /\ DatabaseUntouched(p)

C10_Witness ==
  \E p \in Procs :
    /\ proc[p].cmd = "deploy"
    /\ proc[p].pc = "exited"
    /\ registry_schema = "ready"
    /\ N = 3
    /\ Ids(changes) = ChainIds(1)

\* ---------------------------------------------------------------- C11
\* C11: Plan.full_changes yields one FullChange per plan change, in plan
\* order, with the change's fields unchanged; the first has no parent, each
\* later one has the id of the one before as its parent, and every id is
\* Change.id(project, change, parent).  An empty plan yields nothing and is
\* done at the first next(); the consumer may stop after any prefix.
C11_OneFullChangePerChange ==
  call # Undefined /\ call.fn = "full_changes" =>
    LET y == call.yielded
        n == Len(plan.changes)
    IN  /\ Len(y) = (IF call.nexts < n THEN call.nexts ELSE n)
        /\ \A j \in 1..Len(y) :
             /\ y[j].name = plan.changes[j].name
             /\ y[j].note = plan.changes[j].note
             /\ y[j].date = plan.changes[j].date
             /\ y[j].planner = plan.changes[j].planner
             /\ y[j].parent = (IF j = 1 THEN Undefined ELSE y[j - 1].id)
             /\ y[j].id = Change_id(plan.project, plan.changes[j], y[j].parent)
        /\ y = SubSeq(full_changes(plan), 1, Len(y))
        /\ (call.pc = "done" /\ ~call.returned => Len(y) = n /\ call.nexts = n + 1)
        /\ (call.nexts > n => call.pc = "done")
        /\ (n = 0 /\ call.nexts > 0 => call.pc = "done" /\ y = <<>>)

\* The generator ran to its end over a plan of three changes.
C11_Witness ==
  /\ call # Undefined /\ call.fn = "full_changes"
  /\ call.pc = "done" /\ ~call.returned
  /\ Len(plan.changes) = 3
  /\ Len(call.yielded) = 3

\* ---------------------------------------------------------------- C12
\* C12 as stated: when two plans differ only in one field (name, note, date
\* or planner) of the change at position i, the ids of change i and of every
\* later change differ between the plans, and every id before i is equal.
C12_AsStated ==
  call # Undefined /\ call.fn = "full_changes twice" /\ call.pc = "return" =>
    /\ \A j \in 1..(call.at - 1) : call.ids[j] = call.other_ids[j]
    /\ \A j \in call.at..Len(call.ids) : call.ids[j] # call.other_ids[j]

\* C12: as above for a name, a note, a planner, or a date that differs in
\* its whole seconds; two dates within the same second give the same ids
\* throughout.
C12_ChainSensitivity ==
  call # Undefined /\ call.fn = "full_changes twice" /\ call.pc = "return" =>
    LET same_second ==
          /\ call.field = "date"
          /\ call.plan.changes[call.at].date \div 1000
               = call.other.changes[call.at].date \div 1000
    IN  /\ \A j \in 1..(call.at - 1) : call.ids[j] = call.other_ids[j]
        /\ \A j \in call.at..Len(call.ids) :
             (call.ids[j] = call.other_ids[j]) <=> same_second

\* A note changed in the middle of a plan of three changes.
C12_Witness ==
  /\ call # Undefined /\ call.fn = "full_changes twice" /\ call.pc = "return"
  /\ call.field = "note" /\ call.at = 2 /\ Len(call.ids) = 3
  /\ call.ids[1] = call.other_ids[1]
  /\ call.ids[3] # call.other_ids[3]

\* ---------------------------------------------------------------- C13
\* The characters of a text, and whether it holds a backslash followed by
\* "n" (not code).
Chars(text) == { text[k] : k \in 1..Len(text) }

HasBackslashN(text) ==
  \E k \in 1..(Len(text) - 1) : text[k] = "\\" /\ text[k + 1] = "n"

\* C13 as stated: for every well-formed plan (names without white space,
\* UTC dates, free-form planners, free-text notes that may span lines),
\* Plan.parse(Plan.format(plan)) succeeds and returns an equal plan, unless
\* a date has a fraction of a second or a note holds backslash-n.
C13_AsStated ==
  /\ call # Undefined
  /\ call.fn = "Plan.parse(Plan.format(plan))" /\ call.pc = "return"
  /\ \A k \in 1..Len(call.plan.changes) :
       /\ call.plan.changes[k].date % 1000 = 0
       /\ ~HasBackslashN(call.plan.changes[k].note)
  => call.result.ok /\ call.result.value = call.plan

\* ---------------------------------------------------------------- C14
\* The change lines of a file: its lines that are not blank and do not
\* start with "%", in file order; what parse_line makes of each; the first
\* one parse_line rejects (not code).
ChangeLines(lines) ==
  SelectSeq(lines, LAMBDA line :
     (\E k \in 1..Len(line) : line[k] \notin WhiteSpace) /\ ~(Len(line) > 0 /\ line[1] = "%"))

ParsedLines(lines) ==
  [k \in 1..Len(ChangeLines(lines)) |-> parse_line(ChangeLines(lines)[k])]

FailingLines(lines) == { k \in 1..Len(ChangeLines(lines)) : ~ParsedLines(lines)[k].ok }

FirstFailing(lines) ==
  CHOOSE k \in FailingLines(lines) : \A j \in FailingLines(lines) : k <= j

\* C14 as stated: Plan.parse parses the change lines in file order; if one
\* fails it returns the error of the first failing line and no plan; a plan
\* it returns has exactly one change per change line, in file order.
C14_AsStated ==
  call # Undefined /\ call.fn = "Plan.parse" /\ call.pc = "return" =>
    LET parsed == ParsedLines(call.lines)
    IN  /\ FailingLines(call.lines) # {}
             => call.result = parsed[FirstFailing(call.lines)]
        /\ call.result.ok
             => call.result.value.changes = [k \in 1..Len(parsed) |-> parsed[k].value]

\* C14: the same for a file whose first line is the syntax line; any other
\* file gets the unsupported-syntax error and no plan, whatever its change
\* lines are.
C14_ChangeLinesInOrder ==
  call # Undefined /\ call.fn = "Plan.parse" /\ call.pc = "return" =>
    LET parsed == ParsedLines(call.lines)
    IN  /\ Len(call.lines) > 0 /\ call.lines[1] = SyntaxLine /\ FailingLines(call.lines) # {}
             => call.result = parsed[FirstFailing(call.lines)]
        /\ ~(Len(call.lines) > 0 /\ call.lines[1] = SyntaxLine)
             => call.result = [ok |-> FALSE, error |-> "Unsupported sqitch plan syntax"]
        /\ call.result.ok
             => call.result.value.changes = [k \in 1..Len(parsed) |-> parsed[k].value]

\* A file with the syntax line and two bad change lines: the error is the
\* first one's.
C14_Witness ==
  /\ call # Undefined /\ call.fn = "Plan.parse" /\ call.pc = "return"
  /\ call.lines = <<SyntaxLine, <<"e", " ", "T", "1", "Z">>, <<"d">>>>
  /\ call.result = [ok |-> FALSE, error |-> "missing space after date"]

\* ---------------------------------------------------------------- C15
\* The lines of a file that are not empty (not code).
NonEmptyLines(lines) == SelectSeq(lines, LAMBDA line : Len(line) > 0)

\* C15 as stated: Plan.parse decides on the syntax version by the first
\* non-empty line of the file: when it is the syntax line parsing goes on,
\* blank lines before it being ignored; when it is anything else the result
\* is the unsupported-syntax error.
C15_AsStated ==
  /\ call # Undefined /\ call.fn = "Plan.parse" /\ call.pc = "return"
  /\ Len(NonEmptyLines(call.lines)) > 0
  => ( call.result = [ok |-> FALSE, error |-> "Unsupported sqitch plan syntax"]
         <=> NonEmptyLines(call.lines)[1] # SyntaxLine )

\* ---------------------------------------------------------------- C16
\* The texts that are ISO 8601 instants, and the renderings with whole
\* seconds (not code).
IsoInstants ==
  { <<"T", DigitChars[d], "Z">> : d \in 1..10 }
  \cup { <<"T", DigitChars[d], ".", DigitChars[f], "Z">> : d \in 1..10, f \in 1..10 }

WholeSecondTexts == { <<"T", DigitChars[d], "Z">> : d \in 1..10 }

\* C16 as stated: parse_line returns the invalid-date error and no change
\* whenever the date field of the line is not a valid ISO 8601 instant;
\* hence every change it returns has a valid date, which format_line_date
\* renders with whole seconds.
C16_AsStated ==
  /\ call # Undefined /\ call.fn = "parse_line" /\ call.pc = "return"
  /\ call.date_text # Undefined
  => /\ call.date_text \notin IsoInstants
          => call.result = [ok |-> FALSE,
                            error |-> "invalid date format, expected ISO 8601 date string"]
     /\ call.result.ok
          => /\ call.result.value.date # NaN
             /\ format_line_date(call.result.value.date) \in WholeSecondTexts

\* ---------------------------------------------------------------- C17
\* A text with its newlines written as backslash-n, and a text with every
\* backslash-n read as a newline (not code).
RECURSIVE Escaped(_)
Escaped(text) ==
  IF Len(text) = 0 THEN <<>>
  ELSE (IF text[1] = "\n" THEN <<"\\", "n">> ELSE <<text[1]>>) \o Escaped(Tail(text))

RECURSIVE Unescaped(_)
Unescaped(text) ==
  IF Len(text) < 2 THEN text
  ELSE IF text[1] = "\\" /\ text[2] = "n" THEN <<"\n">> \o Unescaped(SubSeq(text, 3, Len(text)))
  ELSE <<text[1]>> \o Unescaped(Tail(text))

\* C17 as stated: format_line writes the change on one line with every
\* newline of the note as backslash-n, and parse_line reads every
\* backslash-n of the note as a newline: a note with newlines comes back
\* equal, a note that holds backslash-n comes back with a newline in its place.
C17_AsStated ==
  /\ call # Undefined
  /\ call.fn = "parse_line(format_line(change))" /\ call.pc = "return"
  => /\ "\n" \notin Chars(call.line)
     /\ call.result.ok
     /\ "\n" \in Chars(call.change.note) /\ ~HasBackslashN(call.change.note)
          => call.result.value.note = call.change.note
     /\ HasBackslashN(call.change.note)
          => call.result.value.note = Unescaped(call.change.note)

\* ---------------------------------------------------------------- C18
\* The lines of a text; a date's rendering with whole seconds (not code).
RECURSIVE LinesOf(_)
LinesOf(text) ==
  IF "\n" \notin Chars(text) THEN <<text>>
  ELSE LET k == CHOOSE i \in 1..Len(text) :
                   text[i] = "\n" /\ \A j \in 1..(i - 1) : text[j] # "\n"
       IN  <<SubSeq(text, 1, k - 1)>> \o LinesOf(SubSeq(text, k + 1, Len(text)))

WholeSeconds(date) == <<"T", DigitChars[(date - (date % 1000)) \div 1000 + 1], "Z">>

\* C18: Change.format gives, in this order, the lines "project <project>",
\* "change <name>", "parent <parent id>" (exactly when a parent id is
\* given), "planner <planner>", "date <date with whole seconds>", one blank
\* line, then the note as it is, newlines included, with no newline added
\* after it.
C18_CanonicalRecord ==
  call # Undefined /\ call.fn = "Change.format" /\ call.pc = "return" =>
    LET lines == LinesOf(call.result)
        given == call.parent # Undefined
        h == IF given THEN 5 ELSE 4
    IN  /\ Len(lines) = h + 1 + Len(LinesOf(call.change.note))
        /\ lines[1] = <<"project ">> \o call.project
        /\ lines[2] = <<"change ">> \o call.change.name
        /\ given => lines[3] = <<"parent ">> \o call.parent
        /\ \A k \in 1..Len(lines) :
             Len(lines[k]) > 0 /\ lines[k][1] = "parent " => given /\ k = 3
        /\ lines[h - 1] = <<"planner ">> \o call.change.planner
        /\ lines[h] = <<"date ">> \o WholeSeconds(call.change.date)
        /\ lines[h + 1] = <<>>
        /\ SubSeq(lines, h + 2, Len(lines)) = LinesOf(call.change.note)

\* A change with a parent, a date with a fraction of a second and a note of
\* two lines.
C18_Witness ==
  /\ call # Undefined /\ call.fn = "Change.format" /\ call.pc = "return"
  /\ call.parent # Undefined
  /\ call.change.date = 1500
  /\ Len(LinesOf(call.change.note)) = 2
  /\ Len(LinesOf(call.result)) = 8

\* ---------------------------------------------------------------- C20
\* The URLs --target may hold that are mysql: URLs, and the port each one
\* stands for (not code).
MysqlUrls == { u \in UrlParts : u.scheme = "mysql" /\ u.port # <<"x">> }

PortOf(u) ==
  IF u.port = <<>> THEN 3306
  ELSE IF u.port = <<"7">> THEN 7
  ELSE 42

\* C20: parse_common_args returns an error when --target is missing, empty,
\* not a URL or not a mysql: URL; otherwise it returns the connection
\* options of the URL (username, password, hostname, database name, and the
\* port, 3306 when the URL has none), the registry name ("sqitch" when
\* --registry is absent) and the plan file ("./sqitch.plan" when
\* --plan-file is absent).
C20_CommonArgs ==
  call # Undefined /\ call.fn = "parse_common_args" /\ call.pc = "return" =>
    LET valid == /\ Len(call.target) = 2
                 /\ \E u \in MysqlUrls : UrlText(u) = call.target[2]
    IN  /\ ~valid => ~call.result.ok
        /\ valid =>
             LET u == CHOOSE x \in MysqlUrls : UrlText(x) = call.target[2]
                 value == call.result.value
             IN  /\ call.result.ok
                 /\ value.connection_options =
                      [username |-> IF u.credentials THEN <<"u">> ELSE <<>>,
                       password |-> IF u.credentials THEN <<"pw">> ELSE <<>>,
                       hostname |-> <<"h">>,
                       db |-> u.db,
                       port |-> PortOf(u)]
                 /\ Len(call.registry) = 0 => value.registry = <<"sqitch">>
                 /\ call.registry = <<<<"--registry">>, <<"quitch">>>>
                      => value.registry = <<"quitch">>
                 /\ Len(call.plan_file) = 0 => value.plan_file = <<"./sqitch.plan">>
                 /\ call.plan_file = <<<<"--plan-file">>, <<"./quitch.plan">>>>
                      => value.plan_file = <<"./quitch.plan">>

\* Only --target is given, a mysql: URL without a port: every default applies.
C20_Witness ==
  /\ call # Undefined /\ call.fn = "parse_common_args" /\ call.pc = "return"
  /\ call.args = << <<"--target">>, <<"mysql", ":", "//", "u", ":", "pw", "@", "h", "/", "db">> >>
  /\ call.result.ok
  /\ call.result.value.connection_options.port = 3306
  /\ call.result.value.registry = <<"sqitch">>
  /\ call.result.value.plan_file = <<"./sqitch.plan">>

\* ---------------------------------------------------------------- C21
\* The number of changes of the plan's chain whose ids are exactly the ids
\* of these rows; -1 when the rows are not such a prefix (not code).
PrefixLen(rows) ==
  LET fcs == FC
      ids == Ids(rows)
      ks == { k \in 0..Len(fcs) : ids = { fcs[i].id : i \in 1..k } }
  IN  IF ks = {} THEN -1 ELSE CHOOSE k \in ks : TRUE

\* C21: from a registry whose ids are those of the first k plan changes,
\* sequentially run revert invocations keep the registry's ids those of a
\* prefix of the plan: validation reports no consistency error, the only
\* row an invocation removes is the one of the prefix's last change, an
\* invocation that ends well has removed exactly that row, and on the empty
\* prefix the invocation reports "Nothing to revert".
C21_RevertKeepsPrefix ==
  [][ LET k == PrefixLen(changes)
      IN  k # -1 =>
            /\ PrefixLen(changes') # -1
            /\ changes' # changes =>
                 /\ k >= 1
                 /\ PrefixLen(changes') = k - 1
                 /\ changes \ changes' = { RowOf(FC[k]) }
            /\ \A p \in Procs :
                 /\ proc'[p].validated # "threw"
                 /\ (proc[p].pc = "select" /\ k = 0)
                      => proc'[p].message = "Nothing to revert"
                 /\ ( /\ proc[p].cmd = "revert" /\ proc[p].pc # "exited"
                      /\ proc'[p].pc = "exited" /\ proc'[p].exit_code = 0 )
                      => /\ PrefixLen(hist[p].changes) >= 1
                         /\ PrefixLen(changes') = PrefixLen(hist[p].changes) - 1
    ]_vars

\* Two invocations in a row reverted the second change, then the first.
C21_Witness ==
  /\ N = 2
  /\ runs = 2
  /\ changes = {}
  /\ Len(events) = 2
  /\ events[1].event = "revert" /\ events[1].change_id = FC[2].id
  /\ events[2].event = "revert" /\ events[2].change_id = FC[1].id

\* ---------------------------------------------------------------- C22
\* C22 as stated: whichever guarded step fails (the script, the deletion of
\* the row, the insertion of the "revert" event), a "fail" event is logged
\* for the target only when the invocation has not deleted the target's row:
\* no run has the target's row deleted and a "fail" event recorded for it.
C22_AsStated ==
  \A p \in Procs :
    (\E i \in 1..Len(NewEvents(p)) :
        /\ NewEvents(p)[i].event = "fail"
        /\ NewEvents(p)[i].change_id = Target(p).id)
    => /\ \A i \in 1..Len(hist[p].log) : hist[p].log[i] # <<"delete", Target(p).id, TRUE>>
       /\ (Target(p).id \in Ids(hist[p].changes) => Target(p).id \in Ids(changes))

\* ---------------------------------------------------------------- C23
\* A text without its ";" and its white space (not code).
RECURSIVE Squeezed(_)
Squeezed(text) ==
  IF Len(text) = 0 THEN <<>>
  ELSE (IF text[1] \in WhiteSpace \cup {";"} THEN <<>> ELSE <<text[1]>>)
       \o Squeezed(Tail(text))

RECURSIVE Concatenated(_)
Concatenated(texts) ==
  IF Len(texts) = 0 THEN <<>> ELSE texts[1] \o Concatenated(Tail(texts))

\* C23: the statements of a revert script are the pieces between its ";",
\* trimmed, the empty ones dropped; they are sent to the target one at a
\* time in the order of the script; after a statement fails no later one is
\* sent, the failure reaches the command (no deletion follows, the catch
\* block runs), and the statements sent before the failing one stay applied.
C23_StatementsInOrder ==
  \A p \in Procs :
    proc[p].revert_sql # Undefined \/ proc[p].statements # <<>> =>
      LET sts == proc[p].statements
          sent == Executed(p)
      IN  /\ \A i \in 1..Len(sts) :
               /\ Len(sts[i]) > 0
               /\ ";" \notin Chars(sts[i])
               /\ sts[i][1] \notin WhiteSpace /\ sts[i][Len(sts[i])] \notin WhiteSpace
          /\ Concatenated(sts) = Squeezed(proc[p].revert_sql)
          /\ Len(sent) <= Len(sts)
          /\ \A i \in 1..Len(sent) :
               /\ sent[i][2] = sts[i]
               /\ i < Len(sent) => sent[i][3]
          /\ target = hist[p].target
                      \o [i \in 1..Cardinality({j \in 1..Len(sent) : sent[j][3]}) |-> sts[i]]
          /\ (\E i \in 1..Len(sent) : ~sent[i][3]) =>
               /\ proc[p].script = "failed"
               /\ proc[p].pc \in {"catch", "exited"}
               /\ \A i \in 1..Len(hist[p].log) : hist[p].log[i][1] # "delete"

\* The second statement of a script failed: the first one stays applied.
C23_Witness ==
  \E p \in Procs :
    /\ Len(proc[p].statements) = 2
    /\ Len(Executed(p)) = 2
    /\ Executed(p)[1][3] /\ ~Executed(p)[2][3]
    /\ target = hist[p].target \o <<proc[p].statements[1]>>
    /\ proc[p].pc = "exited"

\* ---------------------------------------------------------------- C24
\* C24 as stated: the target connection and the registry connection an
\* invocation opened are both released before it ends, on every exit path:
\* successful revert, nothing to revert, consistency error, script not
\* found, failed script, and failure to open the second connection.
C24_AsStated ==
  \A p \in Procs :
    proc[p].pc = "exited" => ~proc[p].db /\ ~proc[p].registry

\* ---------------------------------------------------------------- C25
\* C25: two revert invocations that overlap are not kept apart.  Each one
\* decides its target from the registry rows it read once, at validation,
\* whatever the registry holds by then, and an invocation that has started
\* always has a step it can take whatever the other one is doing (it takes
\* no lock and waits for nothing).  In the interleaving of C25_Witness both
\* invocations validate against the same rows, select the same change and
\* each execute its revert script in full: the script of a change deployed
\* once is executed twice.
C25_NoLock ==
  \A p \in RaceProcs :
    /\ proc[p].last_deployed_change # Undefined =>
         /\ proc[p].validated = "returned"
         /\ Target(p).id \in ReconciledLast(proc[p].change_rows)
    /\ proc[p].pc \notin {"idle", "exited"} => ENABLED Step(p)

\* Both invocations ran at the same time on a registry holding the change
\* once; both read the same rows, chose the same change, and both executed
\* the whole revert script successfully, so the target received it twice.
C25_Witness ==
  /\ proc[1].pc = "exited" /\ proc[2].pc = "exited"
  /\ hist[1].target = <<>> /\ hist[2].target = <<>>
  /\ proc[1].validated = "returned" /\ proc[2].validated = "returned"
  /\ proc[1].change_rows = proc[2].change_rows
  /\ proc[1].last_deployed_change # Undefined
  /\ proc[2].last_deployed_change = proc[1].last_deployed_change
  /\ Cardinality({ r \in proc[1].change_rows : r.change_id = Target(1).id }) = 1
  /\ proc[1].script = "ok" /\ proc[2].script = "ok"
  /\ Len(proc[1].statements) >= 1
  /\ Len(Executed(1)) = Len(proc[1].statements)
  /\ Len(Executed(2)) = Len(proc[2].statements)
  /\ Len(target) = Len(proc[1].statements) + Len(proc[2].statements)

\* ---------------------------------------------------------------- C26
\* C26 as stated: parse_line on a line whose remainder after the date has
\* no "#" returns an empty note and, as planner, the whole remainder with
\* leading and trailing whitespace removed; when the remainder has a "#",
\* the planner is the trimmed text before the first "#" and the note the
\* trimmed text after it (its backslash-n sequences read as line breaks).
C26_AsStated ==
  ( /\ call # Undefined
    /\ call.fn = "parse_line" /\ call.pc = "return"
    /\ call.rest # Undefined )
  => LET idx == indexOf(call.rest, "#")
     IN  /\ call.result.ok
         /\ IF idx = -1
            THEN /\ call.result.value.note = <<>>
                 /\ call.result.value.planner = trim(call.rest)
            ELSE /\ call.result.value.planner = trim(slice2(call.rest, 0, idx))
                 /\ call.result.value.note =
                      replaceAll(trim(slice(call.rest, idx + 1)), <<"\\", "n">>, <<"\n">>)

====
